---- MODULE Spec2Model ----
(***************************************************************************)
(* Model of binary_io.py: the BinaryIO encoder/decoder for flat values     *)
(* and the ContextMixin that owns the underlying stream.                   *)
(*                                                                         *)
(* Representation.                                                         *)
(*   - a Python str used as a type descriptor is a sequence of one         *)
(*     character strings, so that split(':') and index('/') are computed;  *)
(*   - a Python value is a record [kind, v]: int (v an integer), str (v a  *)
(*     sequence of code points), bytes (v a sequence of 0..255), list (v a *)
(*     sequence of values), set (v the members in iteration order, no      *)
(*     member twice), dict (v the <<key, value>> items in iteration order, *)
(*     no key twice) and None;                                             *)
(*   - a stream (io.BytesIO or a binary file) is [data, pos, closed];      *)
(*   - an operation of BinaryIO returns [err, val, f]: the exception it    *)
(*     raised ("" when it returned), the value returned, and the stream    *)
(*     as the operation left it.                                           *)
(* Integers of the model are limited to 32 bits by TLC; every              *)
(* number written or read in the model fits, the Python ranges that do     *)
(* not fit are noted where they are used.                                  *)
(***************************************************************************)
EXTENDS Integers, Sequences, FiniteSets, TLC

(***************************************************************************)
(* Python values                                                           *)
(***************************************************************************)
PyNone == [kind |-> "None", v |-> <<>>]
PyInt(n) == [kind |-> "int", v |-> n]
PyStr(s) == [kind |-> "str", v |-> s]
PyBytes(b) == [kind |-> "bytes", v |-> b]
PyList(l) == [kind |-> "list", v |-> l]
PySet(l) == [kind |-> "set", v |-> l]
PyDict(l) == [kind |-> "dict", v |-> l]

\* the enc of a type component without '/': Python's None
NoEnc == <<"None">>

Range(s) == {s[i] : i \in 1..Len(s)}

Returned(val, f) == [err |-> "", val |-> val, f |-> f]
Raised(err, f) == [err |-> err, val |-> PyNone, f |-> f]

\* "x = call(...)" followed by the rest of the function: an exception of
\* the call propagates, otherwise the rest K runs with its result
Bind(r, K(_)) == IF r.err # "" THEN r ELSE K(r)

\* the same for a call that does not touch the stream f
Try(r, f, K(_)) == IF r.err # "" THEN Raised(r.err, f) ELSE K(r)

\* the exceptions of the code, by the place that raises them
ErrNumberExpected == "ValueError: format unsupported, number expected"
ErrNotShort == "ValueError: not a short string/bytes sequence"
ErrDuplicateKey == "ValueError: duplicate key"
ErrScalarExpectedRead == "ValueError: type unsupported, scalar expected"
ErrScalarExpectedWrite == "ValueError: value_type unsupported, scalar expected"
ErrTypeUnsupported == "ValueError: type unsupported"
ErrStruct == "struct.error"
ErrType == "TypeError"
ErrLookup == "LookupError"
ErrIndex == "IndexError"
ErrAttribute == "AttributeError"
ErrEncode == "UnicodeEncodeError"
ErrDecode == "UnicodeDecodeError"

(***************************************************************************)
(* static_initialization                                                   *)
(***************************************************************************)
NUMERIC_FMT == {<<"b">>, <<"B">>, <<"i">>, <<"I">>, <<"l">>, <<"L">>}
STRING_TYPES == {<<"s", "t", "r">>, <<"s", "s", "t", "r">>}
BYTES_TYPES == {<<"b", "y", "t">>, <<"s", "b", "y", "t">>}
SCALAR_TYPES == NUMERIC_FMT \cup STRING_TYPES \cup BYTES_TYPES
DEFAULT_ENC == <<"u", "t", "f", "-", "8">>
LONG_TYPE == <<(<<"I">>), NoEnc>>
SHORT_TYPE == <<(<<"B">>), NoEnc>>

\* len(struct.pack('l', 42)) in native mode on the LP64 platform the
\* self-test needs (its set:L holds 2^63 - 1)
NativeLongSize == 8

\* NUMBER_SIZES[fmt] = len(struct.pack(fmt, 42))
NUMBER_SIZES ==
  [fmt \in NUMERIC_FMT |->
     IF fmt \in {<<"b">>, <<"B">>} THEN 1
     ELSE IF fmt \in {<<"i">>, <<"I">>} THEN 4
     ELSE NativeLongSize]

(***************************************************************************)
(* struct.pack / struct.unpack in native mode, one item                    *)
(***************************************************************************)
SIGNED_FMT == {<<"b">>, <<"i">>, <<"l">>}

\* two's complement, least significant byte first
RECURSIVE LeBytes(_, _)
LeBytes(n, size) ==
  IF size = 0 THEN <<>> ELSE <<n % 256>> \o LeBytes(n \div 256, size - 1)

Reverse(s) == [i \in 1..Len(s) |-> s[Len(s) + 1 - i]]

\* the value of bytes given most significant byte first, acc the value so far
RECURSIVE BeValue(_, _)
BeValue(bs, acc) ==
  IF bs = <<>> THEN acc ELSE BeValue(Tail(bs), acc * 256 + Head(bs))

\* the range struct.pack accepts; the model's integers are 32 bit, so the
\* bounds of 'i' (-2^31 .. 2^31-1) hold of every integer of the model and the
\* upper bounds of 'I' (2^32-1), 'l' and 'L' are out of its reach
InRange(fmt, n) ==
  IF fmt = <<"b">> THEN n >= -128 /\ n <= 127
  ELSE IF fmt = <<"B">> THEN n >= 0 /\ n <= 255
  ELSE IF fmt \in SIGNED_FMT THEN TRUE
  ELSE n >= 0

struct_pack(byteorder, fmt, number) ==
  IF fmt \notin NUMERIC_FMT \/ number.kind # "int" THEN [err |-> ErrStruct, bytes |-> <<>>]
  ELSE IF ~InRange(fmt, number.v) THEN [err |-> ErrStruct, bytes |-> <<>>]
  ELSE LET le == LeBytes(number.v, NUMBER_SIZES[fmt])
       IN [err |-> "", bytes |-> IF byteorder = "little" THEN le ELSE Reverse(le)]

struct_unpack(byteorder, fmt, buf) ==
  IF Len(buf) # NUMBER_SIZES[fmt] THEN [err |-> ErrStruct, val |-> PyNone]
  ELSE LET be == IF byteorder = "little" THEN Reverse(buf) ELSE buf
           top == IF fmt \in SIGNED_FMT /\ be[1] >= 128 THEN be[1] - 256 ELSE be[1]
       IN [err |-> "", val |-> PyInt(BeValue(Tail(be), top))]

(***************************************************************************)
(* The stream: io.BytesIO / a binary file object                           *)
(***************************************************************************)
Min(a, b) == IF a < b THEN a ELSE b

\* file_object.read(length): the bytes left, at most length of them
_in(f, length) ==
  LET end == Min(f.pos + length, Len(f.data))
  IN Returned(PyBytes(SubSeq(f.data, f.pos + 1, end)), [f EXCEPT !.pos = end])

\* file_object.write(data): at the position, over what was there
_out(f, data) ==
  IF data.kind # "bytes" THEN Raised(ErrType, f)
  ELSE LET end == f.pos + Len(data.v)
       IN Returned(PyInt(Len(data.v)),
                   [f EXCEPT !.data = SubSeq(f.data, 1, f.pos) \o data.v
                                        \o SubSeq(f.data, end + 1, Len(f.data)),
                             !.pos = end])

(***************************************************************************)
(* Numbers                                                                 *)
(***************************************************************************)
read_number(bo, f, number_type) ==
  IF number_type[1] \notin NUMERIC_FMT THEN Raised(ErrNumberExpected, f)
  ELSE Bind(_in(f, NUMBER_SIZES[number_type[1]]), LAMBDA r :
         Try(struct_unpack(bo, number_type[1], r.val.v), r.f, LAMBDA u :
           Returned(u.val, r.f)))

write_number(bo, f, number, number_type) ==
  Try(struct_pack(bo, number_type[1], number), f, LAMBDA p :
    _out(f, PyBytes(p.bytes)))

_fmt_to_len_type(fmt) ==
  IF fmt = <<"b", "y", "t">> \/ fmt = <<"s", "t", "r">> THEN LONG_TYPE ELSE SHORT_TYPE

\* len(sequence) is a TypeError for an int and for None
HasLen(x) == x.kind \notin {"int", "None"}

\* _get_len_and_fmt with the limit off by one
_get_len_and_fmt_256(sequence, fmt) ==
  IF ~HasLen(sequence) THEN [err |-> ErrType, length |-> 0, typ |-> SHORT_TYPE]
  ELSE LET length == Len(sequence.v)
           lt == _fmt_to_len_type(fmt)
       IN IF lt[1] = <<"B">> /\ length > 256
          THEN [err |-> ErrNotShort, length |-> length, typ |-> lt]
          ELSE [err |-> "", length |-> length, typ |-> lt]

_get_len_and_fmt(sequence, fmt) ==
  IF ~HasLen(sequence) THEN [err |-> ErrType, length |-> 0, typ |-> SHORT_TYPE]
  ELSE LET length == Len(sequence.v)
           lt == _fmt_to_len_type(fmt)
       IN IF lt[1] = <<"B">> /\ length > 255
          THEN [err |-> ErrNotShort, length |-> length, typ |-> lt]
          ELSE [err |-> "", length |-> length, typ |-> lt]

(***************************************************************************)
(* Text encodings: bytes(string, encoding=enc) and _bytes.decode(enc)      *)
(***************************************************************************)
UTF_8 == <<"u", "t", "f", "-", "8">>
LATIN_1 == <<"l", "a", "t", "i", "n", "-", "1">>
ASCII == <<"a", "s", "c", "i", "i">>
\* the codecs the model looks up; any other name is a LookupError
CODECS == {UTF_8, LATIN_1, ASCII}

IsSurrogate(cp) == cp >= 55296 /\ cp <= 57343

\* the bytes of one code point, <<>> when the codec cannot encode it
EncodeChar(enc, cp) ==
  IF enc = ASCII THEN (IF cp < 128 THEN <<cp>> ELSE <<>>)
  ELSE IF enc = LATIN_1 THEN (IF cp < 256 THEN <<cp>> ELSE <<>>)
  ELSE IF cp < 128 THEN <<cp>>
  ELSE IF cp < 2048 THEN <<192 + (cp \div 64), 128 + (cp % 64)>>
  ELSE IF IsSurrogate(cp) THEN <<>>
  ELSE IF cp < 65536
    THEN <<224 + (cp \div 4096), 128 + ((cp \div 64) % 64), 128 + (cp % 64)>>
  ELSE <<240 + (cp \div 262144), 128 + ((cp \div 4096) % 64),
         128 + ((cp \div 64) % 64), 128 + (cp % 64)>>

\* the encodings of s[lo..hi] joined, by halves (the depth of the recursion
\* stays logarithmic in the length of the string)
RECURSIVE EncodeRange(_, _, _, _)
EncodeRange(enc, s, lo, hi) ==
  IF lo > hi THEN <<>>
  ELSE IF lo = hi THEN EncodeChar(enc, s[lo])
  ELSE LET mid == (lo + hi) \div 2
       IN EncodeRange(enc, s, lo, mid) \o EncodeRange(enc, s, mid + 1, hi)

\* strict encoding: one character the codec cannot encode fails the whole
Encode(enc, s) ==
  IF \E i \in 1..Len(s) : EncodeChar(enc, s[i]) = <<>>
  THEN [err |-> ErrEncode, bytes |-> <<>>]
  ELSE [err |-> "", bytes |-> EncodeRange(enc, s, 1, Len(s))]

IsCont(b) == b >= 128 /\ b <= 191

\* the well-formed UTF-8 sequence starting at bs[i]: [n, cp], n = 0 when
\* there is none (strict decoding: no overlong form, no surrogate, <= 10FFFF)
Utf8At(bs, i) ==
  LET b0 == bs[i]
      has(k) == i + k <= Len(bs)
      bad == [n |-> 0, cp |-> 0]
  IN IF b0 < 128 THEN [n |-> 1, cp |-> b0]
     ELSE IF b0 >= 194 /\ b0 <= 223
       THEN IF has(1) /\ IsCont(bs[i + 1])
            THEN [n |-> 2, cp |-> (b0 - 192) * 64 + (bs[i + 1] - 128)]
            ELSE bad
     ELSE IF b0 >= 224 /\ b0 <= 239
       THEN IF /\ has(2)
               /\ IsCont(bs[i + 1]) /\ IsCont(bs[i + 2])
               /\ (b0 = 224 => bs[i + 1] >= 160)
               /\ (b0 = 237 => bs[i + 1] <= 159)
            THEN [n |-> 3, cp |-> (b0 - 224) * 4096 + (bs[i + 1] - 128) * 64
                                    + (bs[i + 2] - 128)]
            ELSE bad
     ELSE IF b0 >= 240 /\ b0 <= 244
       THEN IF /\ has(3)
               /\ IsCont(bs[i + 1]) /\ IsCont(bs[i + 2]) /\ IsCont(bs[i + 3])
               /\ (b0 = 240 => bs[i + 1] >= 144)
               /\ (b0 = 244 => bs[i + 1] <= 143)
            THEN [n |-> 4, cp |-> (b0 - 240) * 262144 + (bs[i + 1] - 128) * 4096
                                    + (bs[i + 2] - 128) * 64 + (bs[i + 3] - 128)]
            ELSE bad
     ELSE bad

\* strict UTF-8: the bytes are well formed when the first byte and every
\* byte that is not a continuation byte start a well-formed sequence that
\* the next such byte (or the end) follows immediately; the characters are
\* then the sequences at those bytes, in order
Utf8Valid(bs) ==
  /\ bs # <<>> => ~IsCont(bs[1])
  /\ \A i \in 1..Len(bs) :
       ~IsCont(bs[i]) =>
          LET u == Utf8At(bs, i)
          IN u.n > 0 /\ (i + u.n <= Len(bs) => ~IsCont(bs[i + u.n]))

Decode(enc, bs) ==
  IF enc = LATIN_1 THEN [err |-> "", s |-> bs]
  ELSE IF enc = ASCII
    THEN IF \A i \in 1..Len(bs) : bs[i] < 128 THEN [err |-> "", s |-> bs]
         ELSE [err |-> ErrDecode, s |-> <<>>]
  ELSE IF ~Utf8Valid(bs) THEN [err |-> ErrDecode, s |-> <<>>]
  ELSE LET starts == SelectSeq([i \in 1..Len(bs) |-> i], LAMBDA i : ~IsCont(bs[i]))
       IN [err |-> "", s |-> [k \in 1..Len(starts) |-> Utf8At(bs, starts[k]).cp]]

\* "if not enc": None and '' both select the default
Falsy(enc) == enc = NoEnc \/ enc = <<>>

\* "if not enc: enc = self.DEFAULT_ENC"
Codec(enc) == IF Falsy(enc) THEN DEFAULT_ENC ELSE enc

\* the str of a decoding, the bytes of an encoding
Decoded(d) ==
  IF d.err # "" THEN [err |-> d.err, val |-> PyNone]
  ELSE [err |-> "", val |-> PyStr(d.s)]

Encoded(d) ==
  IF d.err # "" THEN [err |-> d.err, val |-> PyNone]
  ELSE [err |-> "", val |-> PyBytes(d.bytes)]

\* _decode_string that ignores the encoding hint
_decode_string_default(_bytes, enc) ==
  Decoded(Decode(DEFAULT_ENC, _bytes.v))

_decode_string(_bytes, enc) ==
  IF Codec(enc) \notin CODECS THEN [err |-> ErrLookup, val |-> PyNone]
  ELSE Decoded(Decode(Codec(enc), _bytes.v))

_encode_string(string, enc) ==
  IF string.kind # "str" THEN [err |-> ErrType, val |-> PyNone]
  ELSE IF Codec(enc) \notin CODECS THEN [err |-> ErrLookup, val |-> PyNone]
  ELSE Encoded(Encode(Codec(enc), string.v))

(***************************************************************************)
(* Bytes and strings                                                       *)
(***************************************************************************)
read_bytes(bo, f, item_type) ==
  Bind(read_number(bo, f, _fmt_to_len_type(item_type[1])), LAMBDA length :
    _in(length.f, length.val.v))

write_bytes(bo, f, _bytes, item_type) ==
  Try(_get_len_and_fmt(_bytes, item_type[1]), f, LAMBDA lf :
    Bind(write_number(bo, f, PyInt(lf.length), lf.typ), LAMBDA n :
      Bind(_out(n.f, _bytes), LAMBDA m :
        Returned(PyInt(n.val.v + m.val.v), m.f))))

\* read_string that takes every length prefix for a short one
read_string_short(bo, f, item_type) ==
  Bind(read_number(bo, f, SHORT_TYPE), LAMBDA length :
    Bind(_in(length.f, length.val.v), LAMBDA _bytes :
      Try(_decode_string(_bytes.val, item_type[2]), _bytes.f, LAMBDA d :
        Returned(d.val, _bytes.f))))

read_string(bo, f, item_type) ==
  Bind(read_number(bo, f, _fmt_to_len_type(item_type[1])), LAMBDA length :
    Bind(_in(length.f, length.val.v), LAMBDA _bytes :
      Try(_decode_string(_bytes.val, item_type[2]), _bytes.f, LAMBDA d :
        Returned(d.val, _bytes.f))))

\* write_string that writes the length prefix before it encodes the string
write_string_prefix_first(bo, f, string, item_type) ==
  Try(_get_len_and_fmt(string, item_type[1]), f, LAMBDA lf :
    Bind(write_number(bo, f, PyInt(lf.length), lf.typ), LAMBDA n :
      Try(_encode_string(string, item_type[2]), n.f, LAMBDA _bytes :
        Bind(_out(n.f, _bytes.val), LAMBDA m :
          Returned(PyInt(n.val.v + m.val.v), m.f)))))

write_string(bo, f, string, item_type) ==
  Try(_encode_string(string, item_type[2]), f, LAMBDA _bytes :
    Try(_get_len_and_fmt(_bytes.val, item_type[1]), f, LAMBDA lf :
      Bind(write_number(bo, f, PyInt(lf.length), lf.typ), LAMBDA n :
        Bind(_out(n.f, _bytes.val), LAMBDA m :
          Returned(PyInt(n.val.v + m.val.v), m.f)))))

(***************************************************************************)
(* Scalars                                                                 *)
(***************************************************************************)
read_scalar(bo, f, item_type) ==
  LET typ == item_type[1]
  IN IF typ \in NUMERIC_FMT THEN read_number(bo, f, item_type)
     ELSE IF typ \in STRING_TYPES THEN read_string(bo, f, item_type)
     ELSE IF typ \in BYTES_TYPES THEN read_bytes(bo, f, item_type)
     ELSE Raised(ErrScalarExpectedRead, f)

write_scalar(bo, f, item, item_type) ==
  LET typ == item_type[1]
  IN IF typ \in NUMERIC_FMT THEN write_number(bo, f, item, item_type)
     ELSE IF typ \in STRING_TYPES THEN write_string(bo, f, item, item_type)
     ELSE IF typ \in BYTES_TYPES THEN write_bytes(bo, f, item, item_type)
     ELSE Raised(ErrScalarExpectedWrite, f)

(***************************************************************************)
(* Python's iteration, ordering and sorted()                               *)
(***************************************************************************)
\* "for element in x": the members of a list or set, the keys of a dict, the
\* characters of a str, the integers of a bytes
Iterate(x) ==
  IF x.kind \in {"list", "set"} THEN x.v
  ELSE IF x.kind = "dict" THEN [i \in 1..Len(x.v) |-> x.v[i][1]]
  ELSE IF x.kind = "str" THEN [i \in 1..Len(x.v) |-> PyStr(<<x.v[i]>>)]
  ELSE [i \in 1..Len(x.v) |-> PyInt(x.v[i])]

\* sequences of integers in lexicographic order (str by code point, bytes)
LexLess(a, b) ==
  \E i \in 1..(Len(a) + 1) :
    /\ \A j \in 1..(i - 1) : j <= Len(b) /\ a[j] = b[j]
    /\ i <= Len(b)
    /\ (i > Len(a) \/ a[i] < b[i])

\* a < b for two scalars of one kind
PyLess(a, b) == IF a.kind = "int" THEN a.v < b.v ELSE LexLess(a.v, b.v)

\* x < y is a TypeError between an int, a str and a bytes
Comparable(xs) ==
  \A i, j \in 1..Len(xs) :
    xs[i].kind = xs[j].kind /\ xs[i].kind \in {"int", "str", "bytes"}

RECURSIVE InsertSorted(_, _)
InsertSorted(x, sorted) ==
  IF sorted = <<>> THEN <<x>>
  ELSE IF PyLess(x, Head(sorted)) THEN <<x>> \o sorted
  ELSE <<Head(sorted)>> \o InsertSorted(x, Tail(sorted))

\* sorted(s) of mutually comparable, distinct scalars
RECURSIVE sorted(_)
sorted(xs) ==
  IF xs = <<>> THEN <<>> ELSE InsertSorted(Head(xs), sorted(Tail(xs)))

\* sorted(m.items()): the keys of a dict are distinct, so the tuples are
\* ordered by their keys and no two values are ever compared
RECURSIVE InsertSortedItem(_, _)
InsertSortedItem(x, items) ==
  IF items = <<>> THEN <<x>>
  ELSE IF PyLess(x[1], Head(items)[1]) THEN <<x>> \o items
  ELSE <<Head(items)>> \o InsertSortedItem(x, Tail(items))

RECURSIVE sorted_items(_)
sorted_items(items) ==
  IF items = <<>> THEN <<>>
  ELSE InsertSortedItem(Head(items), sorted_items(Tail(items)))

(***************************************************************************)
(* Containers                                                              *)
(***************************************************************************)
\* the loop of read_vector: l more elements to read
RECURSIVE read_vector_loop(_, _, _, _, _)
read_vector_loop(bo, f, element_type, l, vector) ==
  IF l = 0 THEN Returned(PyList(vector), f)
  ELSE Bind(read_scalar(bo, f, element_type), LAMBDA e :
         read_vector_loop(bo, e.f, element_type, l - 1, Append(vector, e.val)))

read_vector(bo, f, element_type) ==
  Bind(read_number(bo, f, LONG_TYPE), LAMBDA l :
    read_vector_loop(bo, l.f, element_type, l.val.v, <<>>))

\* the loop of write_vector and write_set over the elements left, n the
\* count returned so far
RECURSIVE write_elements(_, _, _, _, _)
write_elements(bo, f, elements, element_type, n) ==
  IF elements = <<>> THEN Returned(PyInt(n), f)
  ELSE Bind(write_scalar(bo, f, Head(elements), element_type), LAMBDA w :
         write_elements(bo, w.f, Tail(elements), element_type, n + w.val.v))

\* write_vector that leaves the count prefix out of the count it returns
write_vector_uncounted(bo, f, vector, element_type) ==
  LET vec == IF vector = PyNone THEN PyList(<<>>) ELSE vector
  IN IF ~HasLen(vec) THEN Raised(ErrType, f)
     ELSE Bind(write_number(bo, f, PyInt(Len(vec.v)), LONG_TYPE), LAMBDA n :
            write_elements(bo, n.f, Iterate(vec), element_type, 0))

write_vector(bo, f, vector, element_type) ==
  LET vec == IF vector = PyNone THEN PyList(<<>>) ELSE vector
  IN IF ~HasLen(vec) THEN Raised(ErrType, f)
     ELSE Bind(write_number(bo, f, PyInt(Len(vec.v)), LONG_TYPE), LAMBDA n :
            write_elements(bo, n.f, Iterate(vec), element_type, n.val.v))

\* s.add(member)
SetAdd(s, member) == IF member \in Range(s) THEN s ELSE Append(s, member)

RECURSIVE read_set_loop(_, _, _, _, _)
read_set_loop(bo, f, member_type, l, s) ==
  IF l = 0 THEN Returned(PySet(s), f)
  ELSE Bind(read_scalar(bo, f, member_type), LAMBDA e :
         read_set_loop(bo, e.f, member_type, l - 1, SetAdd(s, e.val)))

read_set(bo, f, member_type) ==
  Bind(read_number(bo, f, LONG_TYPE), LAMBDA l :
    read_set_loop(bo, l.f, member_type, l.val.v, <<>>))

\* write_set that writes the members in iteration order
write_set_unsorted(bo, f, s, member_type) ==
  IF ~HasLen(s) THEN Raised(ErrType, f)
  ELSE Bind(write_number(bo, f, PyInt(Len(s.v)), LONG_TYPE), LAMBDA n :
         write_elements(bo, n.f, Iterate(s), member_type, n.val.v))

write_set(bo, f, s, member_type) ==
  IF ~HasLen(s) THEN Raised(ErrType, f)
  ELSE Bind(write_number(bo, f, PyInt(Len(s.v)), LONG_TYPE), LAMBDA n :
         IF ~Comparable(Iterate(s)) THEN Raised(ErrType, n.f)
         ELSE write_elements(bo, n.f, sorted(Iterate(s)), member_type, n.val.v))

\* "key in m" that never finds the key
HasKey_never(m, key) == FALSE

\* "key in m"
HasKey(m, key) == \E i \in 1..Len(m) : m[i][1] = key

RECURSIVE read_map_loop(_, _, _, _, _, _)
read_map_loop(bo, f, key_type, value_type, l, m) ==
  IF l = 0 THEN Returned(PyDict(m), f)
  ELSE Bind(read_scalar(bo, f, key_type), LAMBDA key :
         Bind(read_scalar(bo, key.f, value_type), LAMBDA value :
           IF HasKey(m, key.val) THEN Raised(ErrDuplicateKey, value.f)
           ELSE read_map_loop(bo, value.f, key_type, value_type, l - 1,
                              Append(m, <<key.val, value.val>>))))

read_map(bo, f, key_type, value_type) ==
  Bind(read_number(bo, f, LONG_TYPE), LAMBDA l :
    read_map_loop(bo, l.f, key_type, value_type, l.val.v, <<>>))

RECURSIVE write_items(_, _, _, _, _, _)
write_items(bo, f, items, key_type, value_type, n) ==
  IF items = <<>> THEN Returned(PyInt(n), f)
  ELSE Bind(write_scalar(bo, f, Head(items)[1], key_type), LAMBDA k :
         Bind(write_scalar(bo, k.f, Head(items)[2], value_type), LAMBDA v :
           write_items(bo, v.f, Tail(items), key_type, value_type,
                       n + k.val.v + v.val.v)))

\* m.items() is an AttributeError for anything but a dict
write_map(bo, f, m, key_type, value_type) ==
  IF ~HasLen(m) THEN Raised(ErrType, f)
  ELSE Bind(write_number(bo, f, PyInt(Len(m.v)), LONG_TYPE), LAMBDA n :
         IF m.kind # "dict" THEN Raised(ErrAttribute, n.f)
         ELSE IF ~Comparable(Iterate(m)) THEN Raised(ErrType, n.f)
         ELSE write_items(bo, n.f, sorted_items(m.v), key_type, value_type, n.val.v))

(***************************************************************************)
(* Type descriptors                                                        *)
(***************************************************************************)
\* s.index(c), 0 when c is not in s
Index(s, c) ==
  IF \E i \in 1..Len(s) : s[i] = c
  THEN CHOOSE i \in 1..Len(s) : s[i] = c /\ \A j \in 1..(i - 1) : s[j] # c
  ELSE 0

\* type_descr.split(':')
RECURSIVE Split(_, _)
Split(s, sep) ==
  LET i == Index(s, sep)
  IN IF i = 0 THEN <<s>>
     ELSE <<SubSeq(s, 1, i - 1)>> \o Split(SubSeq(s, i + 1, Len(s)), sep)

parse_type_descr(type_descr) ==
  LET type_components == Split(type_descr, ":")
  IN [k \in 1..Len(type_components) |->
        LET type_component == type_components[k]
            i == Index(type_component, "/")
        IN IF i # 0
           THEN <<SubSeq(type_component, 1, i - 1),
                  SubSeq(type_component, i + 1, Len(type_component))>>
           ELSE <<type_component, NoEnc>>]

VEC == <<"v", "e", "c">>
SET == <<"s", "e", "t">>
MAP == <<"m", "a", "p">>

read(bo, f, type_descr) ==
  LET type_components == parse_type_descr(type_descr)
      typ == type_components[1][1]
      has(k) == Len(type_components) >= k
  IN IF typ \in SCALAR_TYPES THEN read_scalar(bo, f, type_components[1])
     ELSE IF typ = VEC
       THEN IF has(2) THEN read_vector(bo, f, type_components[2])
            ELSE Raised(ErrIndex, f)
     ELSE IF typ = SET
       THEN IF has(2) THEN read_set(bo, f, type_components[2])
            ELSE Raised(ErrIndex, f)
     ELSE IF typ = MAP
       THEN IF has(3) THEN read_map(bo, f, type_components[2], type_components[3])
            ELSE Raised(ErrIndex, f)
     ELSE Raised(ErrTypeUnsupported, f)

write(bo, f, item, type_descr) ==
  LET type_components == parse_type_descr(type_descr)
      typ == type_components[1][1]
      has(k) == Len(type_components) >= k
  IN IF typ \in SCALAR_TYPES THEN write_scalar(bo, f, item, type_components[1])
     ELSE IF typ = VEC
       THEN IF has(2) THEN write_vector(bo, f, item, type_components[2])
            ELSE Raised(ErrIndex, f)
     ELSE IF typ = SET
       THEN IF has(2) THEN write_set(bo, f, item, type_components[2])
            ELSE Raised(ErrIndex, f)
     ELSE IF typ = MAP
       THEN IF has(3) THEN write_map(bo, f, item, type_components[2], type_components[3])
            ELSE Raised(ErrIndex, f)
     ELSE Raised(ErrTypeUnsupported, f)

(***************************************************************************)
(* Inputs of the model                                                     *)
(***************************************************************************)
\* the most successful writes of one session, and the most successful reads
\* of one session over a stream that was not written by the model
MaxWrites == 2
MaxReads == 2

Rep(x, k) == [i \in 1..k |-> x]

T_b == <<"b">>
T_B == <<"B">>
T_i == <<"i">>
T_I == <<"I">>
T_l == <<"l">>
T_L == <<"L">>
T_q == <<"q">>
T_str == <<"s", "t", "r">>
T_sstr == <<"s", "s", "t", "r">>
T_byt == <<"b", "y", "t">>
T_sbyt == <<"s", "b", "y", "t">>
\* 'vec:' T, 'set:' T, 'map:' K ':' V, T '/' enc
Vec(t) == VEC \o <<":">> \o t
Set(t) == SET \o <<":">> \o t
Map(k, v) == MAP \o <<":">> \o k \o <<":">> \o v
Enc(t, enc) == t \o <<"/">> \o enc

\* code points: a, b, u-umlaut (2 bytes of UTF-8, 1 of latin-1), euro sign
\* (3 bytes of UTF-8, not in latin-1)
ch_a == 97
ch_b == 98
ch_uuml == 252

_ab == PyStr(<<ch_a, ch_b>>)
_ju == PyStr(<<106, ch_uuml>>)
_egg == PyStr(<<101, 103, 103>>)
_euro == PyStr(<<8364>>)

\* the (item, type_descr) pairs the callers of write() pass
ScalarCases ==
  { <<PyInt(4711), T_i>>, <<PyInt(-19), T_b>>, <<PyInt(200), T_b>>,
    <<PyInt(200), T_B>>, <<PyInt(256), T_B>>, <<PyInt(42), T_I>>,
    <<PyInt(-1), T_I>>, <<PyInt(2147483647), T_L>>, <<PyInt(-5), T_l>>,
    <<_ab, T_sstr>>, <<_ju, Enc(T_sstr, LATIN_1)>>, <<_ju, Enc(T_str, ASCII)>>,
    <<_euro, Enc(T_sstr, LATIN_1)>>, <<_euro, T_str>>,
    <<PyBytes(<<1, 2, 255>>), T_sbyt>>, <<PyBytes(<<>>), T_byt>>,
    <<PyInt(7), T_q>>, <<_ab, T_byt>>, <<PyInt(5), T_sstr>>,
    <<_ab, Enc(T_str, <<"z">>)>> }

\* payloads on both sides of the one byte length prefix
BoundaryCases ==
  { <<PyStr(Rep(ch_a, 255)), T_sstr>>, <<PyStr(Rep(ch_a, 256)), T_sstr>>,
    <<PyStr(Rep(ch_uuml, 128)), T_sstr>>,
    <<PyStr(Rep(ch_uuml, 128)), Enc(T_sstr, LATIN_1)>>,
    <<PyStr(Rep(ch_a, 256)), T_str>>,
    <<PyBytes(Rep(0, 255)), T_sbyt>>, <<PyBytes(Rep(0, 256)), T_sbyt>>,
    <<PyBytes(Rep(0, 256)), T_byt>> }

ContainerCases ==
  { <<PyList(<<PyInt(1), PyInt(2), PyInt(-19), PyInt(2)>>), Vec(T_b)>>,
    <<PyList(<<>>), Vec(T_b)>>, <<PyNone, Vec(T_i)>>,
    <<PyList(<<_egg, _ju>>), Vec(Enc(T_sstr, LATIN_1))>>,
    <<PyList(<<PyInt(1), PyInt(300), PyInt(2)>>), Vec(T_B)>>,
    <<PyList(<<>>), Vec(T_q)>>, <<PyList(<<PyInt(1)>>), Vec(T_q)>>,
    <<PyList(<<>>), VEC>>,
    <<PySet(<<PyInt(3), PyInt(1), PyInt(2)>>), Set(T_L)>>,
    <<PySet(<<PyInt(2), PyInt(3), PyInt(1)>>), Set(T_L)>>,
    <<PySet(<<_egg, _ab>>), Set(T_str)>>,
    <<PySet(<<>>), Set(T_q)>>,
    <<PySet(<<PyInt(1), _ab>>), Set(T_b)>>,
    <<PyDict(<< <<_egg, PyInt(42)>>, <<_ab, PyInt(4711)>> >>), Map(Enc(T_str, ASCII), T_L)>>,
    <<PyDict(<< <<_ab, PyInt(4711)>>, <<_egg, PyInt(42)>> >>), Map(Enc(T_str, ASCII), T_L)>>,
    <<PyDict(<< <<PyInt(5), PyInt(1)>>, <<PyInt(-1), PyInt(2)>> >>), Map(T_i, T_I)>>,
    <<PyDict(<< <<PyInt(1), PyInt(2)>> >>), Map(T_b, T_q)>>,
    <<PyDict(<<>>), Map(T_q, T_q)>> }

\* the first write of a session is any of the cases
WriteCases == ScalarCases \cup BoundaryCases \cup ContainerCases

\* the later writes of a session: a number, a string, a set, a map, and one
\* failure of each kind
LaterCases ==
  { <<PyInt(-19), T_b>>, <<_ju, Enc(T_sstr, LATIN_1)>>,
    <<PySet(<<PyInt(3), PyInt(1), PyInt(2)>>), Set(T_L)>>,
    <<PyDict(<< <<PyInt(5), PyInt(1)>>, <<PyInt(-1), PyInt(2)>> >>), Map(T_i, T_I)>>,
    <<PyInt(256), T_B>>, <<_ju, Enc(T_str, ASCII)>>,
    <<PyStr(Rep(ch_a, 256)), T_sstr>>,
    <<PyList(<<PyInt(1), PyInt(300), PyInt(2)>>), Vec(T_B)>> }

\* the descriptors the callers of read() pass over a stream they did not write
ReadDescrs ==
  { T_b, T_i, T_q, T_sstr, Enc(T_sstr, LATIN_1), T_sbyt, T_str,
    Vec(T_b), Vec(T_q), Set(T_b), Map(T_b, T_b), Map(T_sstr, T_b),
    Map(T_b, T_q), MAP }

\* the count prefix of n in the byte order of the platform
Count(bo, k) == struct_pack(bo, T_I, PyInt(k)).bytes

\* streams that were not written by the model: maps with and without a
\* repeated key, a set with a repeated member, truncated and ill-formed
\* encodings (no four bytes of them are an unsigned number beyond 2^31 - 1)
Crafted(bo) ==
  { <<>>,
    Count(bo, 2) \o <<1, 7, 1, 7>>,
    Count(bo, 2) \o <<1, 7, 1, 9>>,
    Count(bo, 2) \o <<1, 7, 2, 7>>,
    Count(bo, 3) \o <<1, 7, 2, 8, 1, 9>>,
    Count(bo, 2) \o <<1, ch_a, 5, 1, ch_a, 6>>,
    Count(bo, 3) \o <<5, 5, 6>>,
    Count(bo, 3) \o <<1, 2>>,
    Count(bo, 0),
    Count(bo, 2) \o <<ch_a, ch_b>>,
    Count(bo, 4) \o <<ch_a>>,
    <<5, ch_a, ch_b>>,
    <<2, 195, 188>>,
    <<2, 195, 40>>,
    <<2, 195>>,
    <<1, 2>> }

\* what an io.BytesIO handed to a writing session may already hold
Preexisting == <<9, 9, 9>>

(***************************************************************************)
(* The session: BinaryIO.__init__, ContextMixin and the calls in the block *)
(***************************************************************************)
VARIABLES
  byteorder,    \* sys.byteorder, the order of struct's native mode
  name,         \* self.name
  mode,         \* self.mode; the block writes when it is "w", reads when "r"
  file_object,  \* self.file_object: "None" or "stream"
  io_object,    \* self.io_object: "None" or "stream"
  stream,       \* the underlying stream [data, pos, closed]
  initial,      \* the data of the stream when the first session began
  pc,           \* "constructed", "with" (inside the block), "left"
  exc,          \* the exception that left the with statement, "" if none
  result,       \* [err, val] of the last call of read or write
  last,         \* the last call: [op, item, type_descr, before]
  n,            \* the sum of the counts write returned
  log,          \* the successful writes: [item, type_descr, count, end]
  nread         \* the successful reads of the session

vars == <<byteorder, name, mode, file_object, io_object, stream, initial, pc,
          exc, result, last, n, log, nread>>

NoCall == [op |-> "none", item |-> PyNone, type_descr |-> <<>>,
           before |-> [data |-> <<>>, pos |-> 0, closed |-> FALSE]]

\* the ways the docstring constructs a session
ByName == [name |-> "data.bin", file_object |-> "None", io_object |-> "None"]
ByFileObject == [name |-> "None", file_object |-> "stream", io_object |-> "None"]
ByIoObject == [name |-> "None", file_object |-> "None", io_object |-> "stream"]

Init ==
  /\ byteorder \in {"little", "big"}
  /\ mode \in {"w", "r"}
  /\ \E c \in {ByName, ByFileObject, ByIoObject} :
       /\ name = c.name
       /\ file_object = c.file_object
       /\ io_object = c.io_object
       /\ initial \in IF c = ByName THEN {<<>>}
                      ELSE IF mode = "r" THEN Crafted(byteorder)
                      ELSE IF c = ByIoObject THEN {<<>>, Preexisting}
                      ELSE {<<>>}
  /\ stream = [data |-> initial, pos |-> 0, closed |-> FALSE]
  /\ pc = "constructed"
  /\ exc = ""
  /\ result = [err |-> "", val |-> PyNone]
  /\ last = NoCall
  /\ n = 0
  /\ log = <<>>
  /\ nread = 0

\* ContextMixin.__exit__ returns False: the exception is not suppressed
ExitSuppresses == FALSE

\* ContextMixin.__exit__: close the stream
Close(f) == [f EXCEPT !.closed = TRUE]

\* ContextMixin.__enter__; BinaryIO has no method open, so the session
\* constructed from a name fails with AttributeError before the block
Enter ==
  /\ pc = "constructed"
  /\ IF file_object = "None" /\ io_object = "None"
     THEN /\ pc' = "left"
          /\ exc' = ErrAttribute
          /\ UNCHANGED file_object
     ELSE /\ pc' = "with"
          /\ file_object' = "stream"
          /\ UNCHANGED exc
  /\ UNCHANGED <<byteorder, name, mode, io_object, stream, initial, result,
                 last, n, log, nread>>

\* what follows a call inside the block: a return stays in the block, an
\* exception leaves it through __exit__
AfterCall(r) ==
  /\ result' = [err |-> r.err, val |-> r.val]
  /\ IF r.err = ""
     THEN /\ stream' = r.f
          /\ UNCHANGED <<pc, exc>>
     ELSE /\ stream' = Close(r.f)
          /\ pc' = "left"
          /\ exc' = IF ExitSuppresses THEN "" ELSE r.err

\* n += bio.write(item, type_descr), r what the call did
WriteCall(c, r) ==
  /\ AfterCall(r)
  /\ last' = [op |-> "write", item |-> c[1], type_descr |-> c[2], before |-> stream]
  /\ IF r.err = ""
     THEN /\ n' = n + r.val.v
          /\ log' = Append(log, [item |-> c[1], type_descr |-> c[2],
                                 count |-> r.val.v, end |-> r.f.pos])
     ELSE UNCHANGED <<n, log>>

Write ==
  /\ pc = "with"
  /\ mode = "w"
  /\ Len(log) < MaxWrites
  /\ \E c \in IF log = <<>> THEN WriteCases ELSE LaterCases :
       WriteCall(c, write(byteorder, stream, c[1], c[2]))
  /\ UNCHANGED <<byteorder, name, mode, file_object, io_object, initial, nread>>

\* roundtrip = bio.read(type_descr), r what the call did
ReadCall(d, r) ==
  /\ AfterCall(r)
  /\ last' = [op |-> "read", item |-> PyNone, type_descr |-> d, before |-> stream]
  /\ nread' = IF r.err = "" THEN nread + 1 ELSE nread

\* over a stream the model wrote, the descriptors it was written with, in
\* order; over any other stream, any descriptor
Read ==
  /\ pc = "with"
  /\ mode = "r"
  /\ IF log # <<>> THEN nread < Len(log) ELSE nread < MaxReads
  /\ \E d \in IF log # <<>> THEN {log[nread + 1].type_descr} ELSE ReadDescrs :
       ReadCall(d, read(byteorder, stream, d))
  /\ UNCHANGED <<byteorder, name, mode, file_object, io_object, initial, n, log>>

\* the block ends: __exit__(None, None, None)
Exit ==
  /\ pc = "with"
  /\ pc' = "left"
  /\ stream' = Close(stream)
  /\ UNCHANGED <<byteorder, name, mode, file_object, io_object, initial, exc,
                 result, last, n, log, nread>>

\* the self-test's second half: io.BytesIO(bytes_written) handed to a new
\* session that reads it from the start
Reopen ==
  /\ pc = "left"
  /\ mode = "w"
  /\ exc = ""
  /\ log # <<>>
  /\ mode' = "r"
  /\ name' = "None"
  /\ file_object' = "None"
  /\ io_object' = "stream"
  /\ stream' = [data |-> stream.data, pos |-> 0, closed |-> FALSE]
  /\ pc' = "constructed"
  /\ last' = NoCall
  /\ UNCHANGED <<byteorder, initial, exc, result, n, log, nread>>

Next == Enter \/ Write \/ Read \/ Exit \/ Reopen

Spec == Init /\ [][Next]_vars

(***************************************************************************)
(* Properties                                                              *)
(***************************************************************************)
Components == parse_type_descr(last.type_descr)
TopTag == Components[1][1]
Ok == result.err = ""

\* the bytes the last write put on the stream
Appended == SubSeq(stream.data, last.before.pos + 1, stream.pos)

\* the descriptor is one of the grammar: a scalar tag, or vec, set or map
\* over scalar tags
ValidDescr(d) ==
  LET c == parse_type_descr(d)
  IN \/ c[1][1] \in SCALAR_TYPES
     \/ c[1][1] \in {VEC, SET} /\ Len(c) >= 2 /\ c[2][1] \in SCALAR_TYPES
     \/ c[1][1] = MAP /\ Len(c) >= 3 /\ c[2][1] \in SCALAR_TYPES
                      /\ c[3][1] \in SCALAR_TYPES

\* the descriptor names a tag outside the supported set at some position
NamesUnsupportedTag(d) ==
  LET c == parse_type_descr(d)
  IN \/ c[1][1] \notin SCALAR_TYPES \cup {VEC, SET, MAP}
     \/ c[1][1] \in {VEC, SET} /\ Len(c) >= 2 /\ c[2][1] \notin SCALAR_TYPES
     \/ c[1][1] = MAP /\ Len(c) >= 3
          /\ (c[2][1] \notin SCALAR_TYPES \/ c[3][1] \notin SCALAR_TYPES)

ScalarOfType(x, t) ==
  IF t[1] \in NUMERIC_FMT THEN x.kind = "int"
  ELSE IF t[1] \in STRING_TYPES THEN x.kind = "str"
  ELSE x.kind = "bytes"

\* x is a value of the type the valid descriptor d names
Representable(x, d) ==
  LET c == parse_type_descr(d)
  IN IF c[1][1] = VEC
       THEN x.kind = "list" /\ \A i \in 1..Len(x.v) : ScalarOfType(x.v[i], c[2])
     ELSE IF c[1][1] = SET
       THEN x.kind = "set" /\ \A i \in 1..Len(x.v) : ScalarOfType(x.v[i], c[2])
     ELSE IF c[1][1] = MAP
       THEN x.kind = "dict" /\ \A i \in 1..Len(x.v) :
              ScalarOfType(x.v[i][1], c[2]) /\ ScalarOfType(x.v[i][2], c[3])
     ELSE ScalarOfType(x, c[1])

\* Python's ==: a list by its elements in order, a set by its members, a
\* dict by its items
PyEq(a, b) ==
  /\ a.kind = b.kind
  /\ IF a.kind \in {"set", "dict"} THEN Range(a.v) = Range(b.v) ELSE a.v = b.v

FreshStream(data) == [data |-> data, pos |-> 0, closed |-> FALSE]

\* C1: round trip. Whenever write(v, T) succeeded for a valid descriptor T
\* and a value v of the type T names, read(T) over the bytes that write
\* produced returns a value equal to v (same scalar, same list in the same
\* order, set with the same members, dict with the same items).
C1_RoundTrip ==
  (/\ last.op = "write" /\ Ok
   /\ ValidDescr(last.type_descr)
   /\ Representable(last.item, last.type_descr))
  => LET r == read(byteorder, FreshStream(Appended), last.type_descr)
     IN r.err = "" /\ PyEq(r.val, last.item)

C1_Witness ==
  /\ last.op = "write" /\ Ok
  /\ last.item.kind = "dict" /\ Len(last.item.v) = 2
  /\ Len(log) = 2 /\ log[1].item = PyInt(-19)
  /\ PyEq(read(byteorder, FreshStream(Appended), last.type_descr).val, last.item)

Perms(s) ==
  {[i \in 1..Len(s) |-> s[q[i]]] : q \in Permutations(1..Len(s))}

Ascending(xs) == \A i \in 1..(Len(xs) - 1) : PyLess(xs[i], xs[i + 1])

\* the members or keys in the order they stand in the bytes the last write
\* produced
EmittedOrder ==
  IF TopTag = SET
  THEN read_vector(byteorder, FreshStream(Appended), Components[2]).val.v
  ELSE Iterate(read(byteorder, FreshStream(Appended), last.type_descr).val)

\* C2: determinism. Whenever a set or a map was written, writing the same
\* members or items in any other iteration order leaves the stream
\* byte-identical, and the members (the keys) stand in the output in
\* ascending order.
C2_Determinism ==
  (/\ last.op = "write" /\ Ok
   /\ TopTag \in {SET, MAP}
   /\ ValidDescr(last.type_descr)
   /\ Representable(last.item, last.type_descr))
  => /\ \A p \in Perms(last.item.v) :
          LET w == write(byteorder, last.before, [last.item EXCEPT !.v = p],
                         last.type_descr)
          IN w.err = "" /\ w.f.data = stream.data /\ w.f.pos = stream.pos
     /\ Ascending(EmittedOrder)

C2_Witness ==
  /\ last.op = "write" /\ Ok
  /\ TopTag = SET
  /\ Len(last.item.v) = 3
  /\ ~Ascending(last.item.v)
  /\ Ascending(EmittedOrder)

\* C3: returned count. A successful write returns the number of bytes it
\* put on the stream, and as long as every write to an initially empty
\* stream succeeded the sum of the returned counts is the length of the
\* stream.
C3_ReturnedCount ==
  /\ (last.op = "write" /\ Ok) =>
       /\ result.val.v = stream.pos - last.before.pos
       /\ result.val.v = Len(Appended)
       /\ SubSeq(stream.data, 1, last.before.pos)
            = SubSeq(last.before.data, 1, last.before.pos)
  /\ (initial = <<>> /\ exc = "") => n = Len(stream.data)

C3_Witness ==
  /\ initial = <<>> /\ exc = ""
  /\ Len(log) = 2
  /\ log[1].item.kind = "list" /\ log[1].item.v # <<>>
  /\ log[2].item.kind = "str"
  /\ n = Len(stream.data)

\* the payload of the last write of a string or bytes tag: the encoded text,
\* or the bytes themselves
Payload ==
  IF TopTag \in STRING_TYPES THEN _encode_string(last.item, Components[1][2])
  ELSE [err |-> IF last.item.kind = "bytes" THEN "" ELSE ErrType, val |-> last.item]

\* C4: length-prefix boundary. A write with tag sstr or sbyt whose payload
\* (for sstr the encoded text) is at most 255 bytes succeeds and puts a one
\* byte prefix equal to the payload length before the payload; with a
\* payload of 256 bytes or more it fails with 'not a short string/bytes
\* sequence'. With str and byt the write succeeds whatever the length, with
\* the wide prefix.
C4_LengthPrefixBoundary ==
  (/\ last.op = "write"
   /\ TopTag \in STRING_TYPES \cup BYTES_TYPES
   /\ Payload.err = "")
  => LET len == Len(Payload.val.v)
     IN IF TopTag \in {T_sstr, T_sbyt}
        THEN /\ len <= 255 => Ok /\ Appended = <<len>> \o Payload.val.v
             /\ len >= 256 => result.err = ErrNotShort
        ELSE Ok /\ Appended = Count(byteorder, len) \o Payload.val.v

C4_Witness ==
  /\ last.op = "write"
  /\ TopTag \in {T_sstr, T_sbyt}
  /\ Payload.err = "" /\ Len(Payload.val.v) = 256
  /\ result.err = ErrNotShort
  /\ Len(log) = 1 /\ log[1].count = 256 /\ log[1].type_descr \in {T_sstr, T_sbyt}

\* the l entries of a map read one after the other, a repeated key or not
RECURSIVE Entries(_, _, _, _, _, _)
Entries(bo, f, key_type, value_type, l, acc) ==
  IF l = 0 THEN [err |-> "", items |-> acc]
  ELSE LET key == read_scalar(bo, f, key_type)
           value == read_scalar(bo, key.f, value_type)
       IN IF key.err # "" \/ value.err # "" THEN [err |-> "undecodable", items |-> <<>>]
          ELSE Entries(bo, value.f, key_type, value_type, l - 1,
                       Append(acc, <<key.val, value.val>>))

\* the entries of the stream the last read('map:K:V') was given
StreamEntries ==
  LET l == read_number(byteorder, last.before, LONG_TYPE)
  IN IF l.err # "" THEN [err |-> "undecodable", items |-> <<>>]
     ELSE Entries(byteorder, l.f, Components[2], Components[3], l.val.v, <<>>)

DistinctKeys(items) ==
  \A i, j \in 1..Len(items) : items[i][1] = items[j][1] => i = j

\* C5: duplicate-key rejection. read('map:K:V') over a stream whose count is
\* n and whose n entries decode fails with 'duplicate key' and returns no
\* map when two of the entries have the same key (equal values or not), and
\* returns the map of exactly these n entries when the keys are distinct.
C5_DuplicateKey ==
  (/\ last.op = "read"
   /\ TopTag = MAP /\ ValidDescr(last.type_descr)
   /\ StreamEntries.err = "")
  => IF DistinctKeys(StreamEntries.items)
     THEN Ok /\ result.val = PyDict(StreamEntries.items)
     ELSE result.err = ErrDuplicateKey /\ result.val = PyNone

C5_Witness ==
  /\ last.op = "read" /\ TopTag = MAP /\ ValidDescr(last.type_descr)
  /\ StreamEntries.err = ""
  /\ Len(StreamEntries.items) = 2
  /\ StreamEntries.items[1][1] = StreamEntries.items[2][1]
  /\ StreamEntries.items[1][2] # StreamEntries.items[2][2]
  /\ result.err = ErrDuplicateKey

\* C6: unsupported tag. Every read and every write whose descriptor names a
\* tag outside the supported set, at the top or as element, key or value
\* tag, fails with the unsupported-type error. The formula asks only that
\* the call fails: a call that returns normally contradicts the claim
\* whatever error it names.
C6_UnsupportedTag ==
  (last.op \in {"read", "write"} /\ NamesUnsupportedTag(last.type_descr))
  => result.err # ""

\* the stream the last read was given ends before the encoding it declares:
\* with one more byte on the stream the same read gets past the old end
Truncated ==
  LET longer == [last.before EXCEPT !.data = Append(@, 0)]
  IN read(byteorder, longer, last.type_descr).f.pos > Len(last.before.data)

\* C7: truncated input fails loudly. A read with a valid descriptor over a
\* stream that ends before the full encoding of the value fails.
C7_TruncatedFails ==
  (last.op = "read" /\ ValidDescr(last.type_descr) /\ Truncated)
  => result.err # ""

\* C8: scoped stream lifetime. Once the with statement of a session is left
\* the underlying stream has been closed, and an error raised by a read or
\* write in the block is the error the with statement raises.
C8_ScopedLifetime ==
  pc = "left" => /\ stream.closed
                 /\ result.err # "" => exc = result.err

\* C9: exact consumption. Reading a stream the model wrote, with the
\* descriptors it was written with, in order: every read succeeds, advances
\* the position by the count the matching write returned, returns the
\* written value, and after the last of them the position is the end of
\* what was written (the end of the stream when it was empty at first).
C9_ExactConsumption ==
  (last.op = "read" /\ log # <<>>)
  => /\ Ok
     /\ nread >= 1
     /\ stream.pos - last.before.pos = log[nread].count
     /\ stream.pos = log[nread].end
     /\ (ValidDescr(last.type_descr) /\ Representable(log[nread].item, last.type_descr))
          => PyEq(result.val, log[nread].item)
     /\ (nread = Len(log) /\ initial = <<>>) => stream.pos = Len(stream.data)

C9_Witness ==
  /\ last.op = "read" /\ Ok
  /\ Len(log) = 2 /\ nread = 2
  /\ initial = <<>>
  /\ log[1].type_descr = T_str
  /\ PyEq(result.val, log[2].item)
  /\ result.val.kind = "set"
  /\ stream.pos = Len(stream.data)

\* the failures of a scalar write the claim lists: unsupported tag, payload
\* too long for a short tag, number out of range, text not encodable
ListedFailures == {ErrTypeUnsupported, ErrNotShort, ErrStruct, ErrEncode}

\* C10: a write with a scalar descriptor that fails for one of the listed
\* reasons leaves the data and the position of the stream as they were.
C10_FailedScalarWrite ==
  (/\ last.op = "write"
   /\ TopTag \notin {VEC, SET, MAP}
   /\ result.err \in ListedFailures)
  => /\ stream.data = last.before.data
     /\ stream.pos = last.before.pos

C10_Witness ==
  /\ last.op = "write"
  /\ TopTag \in STRING_TYPES
  /\ result.err = ErrEncode
  /\ Len(log) = 1
  /\ stream.data = last.before.data /\ stream.data # <<>>

\* the other half of C10: a failing container write that has put its count
\* prefix and an earlier element on the stream
PartialContainerWrite ==
  /\ last.op = "write"
  /\ TopTag = VEC
  /\ result.err = ErrStruct
  /\ Len(stream.data) > Len(last.before.data) + NUMBER_SIZES[T_I]

====
